---- MODULE Spec2Model ----
(***************************************************************************)
(* Persistence layer of the multi-point map (DatabaseService) on its one   *)
(* shared sqlite3 connection.  Every db.run/db.get/db.all call queues one  *)
(* statement on the connection; the connection executes the queue in FIFO  *)
(* order and then runs the statement's callback, which may queue further   *)
(* statements and settle the operation's promise.  A request handler runs  *)
(* between two callbacks, so requests interleave at statement granularity. *)
(***************************************************************************)
EXTENDS Integers, Sequences, FiniteSets, TLC

(* ---------- bounds of the model ---------- *)
MaxGroups == 1        \* group ids handed out by uuidv4()
MaxLocs   == 2        \* location ids handed out by uuidv4()
MaxClock  == 1        \* readings of new Date() are 0..MaxClock
MaxList   == 2        \* longest locations array / locationIds array of a request
MaxConcurrent == 2    \* requests sent by the concurrent clients

(* ---------- values ---------- *)
Devs         == {"A", "B"}    \* device ids carried by requests
Creators     == {"A"}         \* devices that create groups; "B" only intrudes
NewNames     == {"n1"}        \* names given to createLocationGroup
Renames      == {"n2"}        \* names given to updateLocationGroup
NoName       == "none"
DefaultColor == "#3B82F6"
Colors       == {"#FF0000"}
NoColor      == "undefined"
NoGroup      == 0     \* a well-formed group id that no createLocationGroup returned
NoLoc        == 0     \* a well-formed location id that no insert created
Slots        == {1, 2}

VARIABLES
    groups,      \* rows of location_groups: [id, dev, name, upd]
    locations,   \* rows of locations: [id, gid, col, oi, cat]
    inTxn,       \* the connection has an open transaction
    snap,        \* what ROLLBACK restores: the tables at the last successful BEGIN
    queue,       \* statements queued on the connection, oldest first
    ops,         \* per request slot: the DatabaseService call and its closure variables
    alive,       \* the server process is running
    clock,       \* current reading of new Date()
    nextG,       \* next unused group id
    nextL,       \* next unused location id
    limit,       \* how many requests the clients keep in flight at once
    budget,      \* concurrent clients: how many requests they still send
    http,        \* the request the Express router is dispatching, and its answer
    text,        \* the bulk-upload textarea and what parseAddresses made of it
    bulk,        \* the page's bulk-import state: globals, modals, runs of processBulkAddresses
    api,         \* location payloads sent to the API: the last one, and the rows stored
    devices,     \* rows of the devices table: [id, created, seen]
    drag,        \* the page's marker list, the reorder request it sent, the server's order
    counter      \* the address counter of the bulk-upload dialog

load == <<limit, budget>>
server == <<groups, locations, inTxn, snap, queue, ops, alive, clock, nextG, nextL, load>>
\* what lies outside DatabaseService: the router and the browser's page
page == <<http, text, bulk, api, devices, drag, counter>>
vars == <<server, page>>

Store == [g |-> groups, l |-> locations]
NoSnap == [g |-> {}, l |-> {}]

(* ---------- statements ---------- *)
\* s: the slot of the issuing call, k: which db.run/db.get/db.all call it is,
\* a, b: bound parameters, c: whether the bound row satisfies NOT NULL, t: bound timestamp
Stmt(s, k, a, b, c, t) == [s |-> s, k |-> k, a |-> a, b |-> b, c |-> c, t |-> t]
S0(s, k) == Stmt(s, k, 0, 0, TRUE, 0)

(* ---------- calls ---------- *)
NoRes == [name |-> NoName, list |-> <<>>]
FreeOp == [kind |-> "none", st |-> "free", dev |-> "A", gid |-> NoGroup, name |-> NoName,
           hasLocs |-> FALSE, locs |-> <<>>, ids |-> <<>>, lid |-> NoLoc, col |-> NoColor,
           hasError |-> FALSE, cnt |-> 0, now |-> 0, need |-> 0, res |-> NoRes,
           pre |-> NoSnap]

Call(kind, dev, gid) ==
    [FreeOp EXCEPT !.kind = kind, !.st = "pending", !.dev = dev, !.gid = gid,
                   !.now = clock, !.pre = Store]

SeqsUpTo(S, n) == UNION {[1..m -> S] : m \in 0..n}
LocLists == SeqsUpTo(BOOLEAN, MaxList)          \* TRUE: lat, lng and title present
KnownGroups == 0..(nextG - 1)
KnownLocs == 0..(nextL - 1)
IdLists == SeqsUpTo(KnownLocs, MaxList)

(* ---------- SQL ---------- *)
GroupRow(gid, dev) == {g \in groups : g.id = gid /\ g.dev = dev}
LocsOf(L, gid) == {l \in L : l.gid = gid}

\* SELECT COALESCE(MAX(order_index), 0) + 1 FROM locations WHERE group_id = ?
MaxOrderNoPlusOne(L, gid) ==
    IF LocsOf(L, gid) = {} THEN 0
    ELSE CHOOSE m \in {l.oi : l \in LocsOf(L, gid)} : \A l \in LocsOf(L, gid) : l.oi <= m
MaxOrderPlusOne(L, gid) ==
    IF LocsOf(L, gid) = {} THEN 1
    ELSE (CHOOSE m \in {l.oi : l \in LocsOf(L, gid)} :
              \A l \in LocsOf(L, gid) : l.oi <= m) + 1

\* ORDER BY order_index ASC, created_at ASC
Before(x, y) == x.oi < y.oi \/ (x.oi = y.oi /\ x.cat <= y.cat)
RowOf(L, id) == CHOOSE l \in L : l.id = id
OrderedLists(L, gid) ==
    LET R == LocsOf(L, gid)
        n == Cardinality(R)
    IN {q \in [1..n -> {l.id : l \in R}] :
            /\ \A i, j \in 1..n : i # j => q[i] # q[j]
            /\ \A i \in 1..n : i < n => Before(RowOf(R, q[i]), RowOf(R, q[i + 1]))}

\* the same UPDATE without its WHERE clause
TouchEveryGroup(G, gid, t) == {[g EXCEPT !.upd = t] : g \in G}

\* UPDATE location_groups SET updated_at = ? WHERE id = ?
TouchGroup(G, gid, t) ==
    {IF g.id = gid THEN [g EXCEPT !.upd = t] ELSE g : g \in G}

(* ---------- scheduling of requests ---------- *)
HasStmt(s) == \E i \in 1..Len(queue) : queue[i].s = s
Quiescent(s) == ops[s].st # "pending" /\ ~HasStmt(s)
Busy == {s \in Slots : ops[s] # FreeOp}
Reserved == LET RECURSIVE Sum(_)
                Sum(S) == IF S = {} THEN 0
                          ELSE LET x == CHOOSE x \in S : TRUE
                               IN ops[x].need + Sum(S \ {x})
            IN Sum(Busy)
CanStart(s, need) ==
    /\ alive
    /\ ops[s] = FreeOp
    /\ \A t \in Slots : t < s => ops[t] # FreeOp
    /\ Cardinality(Busy) < limit
    /\ limit = 1 \/ budget > 0
    /\ budget' = IF limit = 1 THEN budget ELSE budget - 1
    /\ (nextL - 1) + Reserved + need <= MaxLocs
    /\ UNCHANGED page

\* no request is being dispatched
NoHttp == [pc |-> "idle", method |-> "GET", path |-> <<>>, body |-> "empty",
           route |-> 0, status |-> 0]
\* the textarea is empty and nothing was parsed
NoText == [input |-> <<>>, parsed |-> FALSE, addresses |-> <<>>]

(* ---------- bulk import: values ---------- *)
MaxAddresses == 2     \* most addresses handed to one run of processBulkAddresses
PaletteSize  == 2     \* bulkColors.length (10), scaled
Runs == {1, 2}        \* invocations of processBulkAddresses on the page
PageGroups == {"g1", "g2"}     \* ids of the visitor's groups
GeocodeStatuses == {"OK", "ZERO_RESULTS", "OVER_QUERY_LIMIT"}
\* how the POST of addLocationToGroup ends: 201, or an error status with a JSON body
SaveOutcomes == {"created", "error"}
NotCancelled == -1

NoRun == [pc |-> "idle", n |-> 0, i |-> 0, begun |-> 0, inflight |-> 0,
          geocoded |-> <<>>, successful |-> <<>>, failed |-> <<>>,
          color |-> 0, dest |-> "g1", target |-> "g1", cancelledAt |-> NotCancelled]

\* the page after load: no modal, no run, a group selected
NoBulk == [cancelled |-> FALSE, colorIndex |-> 0, modal |-> "none", group |-> "g1",
           run |-> [r \in Runs |-> NoRun], saved |-> {}, markers |-> {}]


\* no location payload was sent yet
NoApi == [route |-> "none", loc |-> [lat |-> "absent", lng |-> "absent", title |-> "absent"],
          answer |-> "none", wrote |-> FALSE, stored |-> {}]
\* no marker on the page, no reorder request sent
NoDrag == [pc |-> "idle", markers |-> <<>>, group |-> FALSE, before |-> <<>>,
           from |-> 0, to |-> 0, sent |-> <<>>, failed |-> FALSE, answer |-> 0,
           stored |-> <<>>]
\* the counter after openBulkUploadModal: '0'
NoCounter == [updated |-> FALSE, count |-> 0, max |-> FALSE, startDisabled |-> TRUE]

Elsewhere == api = NoApi /\ devices = {} /\ drag = NoDrag /\ counter = NoCounter
PageIdle == http = NoHttp /\ text = NoText /\ bulk = NoBulk /\ Elsewhere

\* the tables right after createTables, no call in flight
ServerFresh ==
    /\ groups = {}
    /\ locations = {}
    /\ inTxn = FALSE
    /\ snap = NoSnap
    /\ queue = <<>>
    /\ ops = [s \in Slots |-> FreeOp]
    /\ alive = TRUE
    /\ clock = 0
    /\ nextG = 1
    /\ nextL = 1
    /\ limit = 1
    /\ budget = 0

Init == ServerFresh /\ PageIdle

\* what createLocationGroup and addLocationToGroup by device A leave behind
SeededStore == [g |-> {[id |-> 1, dev |-> "A", name |-> "n1", upd |-> 0]},
                l |-> {[id |-> 1, gid |-> 1, col |-> DefaultColor, oi |-> 1, cat |-> 0]}]

\* Two clients that do not wait for each other, on a fresh store or on a store with
\* one group of device A holding one location
InitConc ==
    /\ \E seeded \in BOOLEAN :
         /\ groups = IF seeded THEN SeededStore.g ELSE {}
         /\ locations = IF seeded THEN SeededStore.l ELSE {}
         /\ nextG = IF seeded THEN 2 ELSE 1
         /\ nextL = IF seeded THEN 2 ELSE 1
    /\ inTxn = FALSE
    /\ snap = NoSnap
    /\ queue = <<>>
    /\ ops = [s \in Slots |-> FreeOp]
    /\ alive = TRUE
    /\ clock = 0
    /\ limit = 2
    /\ budget = MaxConcurrent
    /\ PageIdle

\* One client that waits for each answer, on a store where device A has two groups,
\* group 1 with one location and group 2 without any, both written before the clock
\* took its present reading
InitTwo ==
    /\ groups = SeededStore.g \cup {[id |-> 2, dev |-> "A", name |-> "n1", upd |-> 0]}
    /\ locations = SeededStore.l
    /\ inTxn = FALSE
    /\ snap = NoSnap
    /\ queue = <<>>
    /\ ops = [s \in Slots |-> FreeOp]
    /\ alive = TRUE
    /\ clock = MaxClock
    /\ nextG = 3
    /\ nextL = 2
    /\ limit = 1
    /\ budget = 0
    /\ PageIdle

\* time passes between the bursts of statements, not within one
Tick ==
    /\ alive
    /\ queue = <<>>
    /\ clock < MaxClock
    /\ clock' = clock + 1
    /\ UNCHANGED <<groups, locations, inTxn, snap, queue, ops, alive, nextG, nextL, load>>
    /\ UNCHANGED page

(* ---------- request handlers: the synchronous part of each DatabaseService call ---------- *)
Others == <<groups, locations, inTxn, snap, alive, clock, limit>>

\* createLocationGroup(deviceId, name, locations): uuidv4(), then BEGIN and the group insert
StartCreate(s) ==
    \E d \in Creators, nm \in NewNames, ls \in LocLists :
        /\ CanStart(s, Len(ls))
        /\ nextG <= MaxGroups
        /\ ops' = [ops EXCEPT ![s] = [Call("create", d, nextG) EXCEPT
                                          !.name = nm, !.locs = ls, !.need = Len(ls)]]
        /\ nextG' = nextG + 1
        /\ queue' = queue \o <<S0(s, "BEGIN"), S0(s, "INSGROUP")>>
        /\ UNCHANGED <<Others, nextL>>

\* getLocationGroup(groupId, deviceId)
StartGet(s) ==
    \E d \in Devs, g \in KnownGroups :
        /\ CanStart(s, 0)
        /\ ops' = [ops EXCEPT ![s] = Call("get", d, g)]
        /\ queue' = queue \o <<S0(s, "GETGROUP")>>
        /\ UNCHANGED <<Others, nextG, nextL>>

\* updateLocationGroup(groupId, deviceId, {name?, locations?})
StartUpdate(s) ==
    \E d \in Devs, g \in KnownGroups, nm \in Renames \cup {NoName},
       hl \in BOOLEAN, ls \in LocLists :
        /\ hl \/ ls = <<>>
        /\ CanStart(s, Len(ls))
        /\ ops' = [ops EXCEPT ![s] = [Call("update", d, g) EXCEPT
                                          !.name = nm, !.hasLocs = hl, !.locs = ls,
                                          !.need = Len(ls)]]
        /\ queue' = queue \o <<S0(s, "UPDGROUP")>>
        /\ UNCHANGED <<Others, nextG, nextL>>

\* deleteLocationGroup(groupId, deviceId): BEGIN and the delete of the locations
StartDelete(s) ==
    \E d \in Devs, g \in KnownGroups :
        /\ CanStart(s, 0)
        /\ ops' = [ops EXCEPT ![s] = Call("delete", d, g)]
        /\ queue' = queue \o <<S0(s, "BEGIN"), S0(s, "DELLOCS_D")>>
        /\ UNCHANGED <<Others, nextG, nextL>>

\* addLocationToGroup(groupId, deviceId, locationData): the ownership query
StartAdd(s) ==
    \E d \in Devs, g \in KnownGroups, c \in {DefaultColor} :
        /\ CanStart(s, 1)
        /\ ops' = [ops EXCEPT ![s] = [Call("add", d, g) EXCEPT !.col = c, !.need = 1]]
        /\ queue' = queue \o <<S0(s, "CHECK_ADD")>>
        /\ UNCHANGED <<Others, nextG, nextL>>

\* reorderLocations(groupId, deviceId, locationIds): the ownership query
StartReorder(s) ==
    \E d \in Devs, g \in KnownGroups, il \in IdLists :
        /\ CanStart(s, 0)
        /\ ops' = [ops EXCEPT ![s] = [Call("reorder", d, g) EXCEPT !.ids = il]]
        /\ queue' = queue \o <<S0(s, "CHECK_REORDER")>>
        /\ UNCHANGED <<Others, nextG, nextL>>

\* deleteLocation(groupId, locationId, deviceId): the ownership query
StartDeleteLocation(s) ==
    \E d \in Devs, g \in KnownGroups, l \in KnownLocs :
        /\ CanStart(s, 0)
        /\ ops' = [ops EXCEPT ![s] = [Call("delLoc", d, g) EXCEPT !.lid = l]]
        /\ queue' = queue \o <<S0(s, "CHECK_DELLOC")>>
        /\ UNCHANGED <<Others, nextG, nextL>>

\* updateLocation(groupId, locationId, deviceId, {color?}): the ownership query
StartUpdateLocation(s) ==
    \E d \in Devs, g \in KnownGroups, l \in KnownLocs, c \in Colors \cup {NoColor} :
        /\ CanStart(s, 0)
        /\ ops' = [ops EXCEPT ![s] = [Call("updLoc", d, g) EXCEPT !.lid = l, !.col = c]]
        /\ queue' = queue \o <<S0(s, "CHECK_UPDLOC")>>
        /\ UNCHANGED <<Others, nextG, nextL>>

(* ---------- the connection: one statement, then its callback ---------- *)
H == Head(queue)
Rest == Tail(queue)
O == ops[H.s]
\* the connection takes statement k from its queue; the page is not involved
Ready(k) == alive /\ queue # <<>> /\ H.k = k /\ UNCHANGED page
Settled(o, st, res) == [o EXCEPT !.st = st, !.res = res]

\* A statement issued without a callback fails: the Statement emits 'error' and nothing
\* listens.  Either the event is lost and the connection goes on, or the exception ends
\* the process, and the open transaction is undone by the journal.
ErrorIgnored ==
    /\ queue' = Rest
    /\ UNCHANGED <<groups, locations, inTxn, snap, ops, alive, clock, nextG, nextL, load>>

ProcessEnds ==
    /\ alive' = FALSE
    /\ queue' = <<>>
    /\ groups' = IF inTxn THEN snap.g ELSE groups
    /\ locations' = IF inTxn THEN snap.l ELSE locations
    /\ inTxn' = FALSE
    /\ snap' = NoSnap
    /\ UNCHANGED <<ops, clock, nextG, nextL, load>>

\* db.run('BEGIN TRANSACTION')
ExecBegin ==
    /\ Ready("BEGIN")
    /\ ~inTxn
    /\ inTxn' = TRUE
    /\ snap' = Store
    /\ queue' = Rest
    /\ UNCHANGED <<groups, locations, ops, alive, clock, nextG, nextL, load>>

\* BEGIN inside an open transaction: "cannot start a transaction within a transaction"
ExecBeginNested ==
    /\ Ready("BEGIN")
    /\ inTxn
    /\ (ErrorIgnored \/ ProcessEnds)

\* db.run('ROLLBACK')
RolledBackKeeps == Store
RolledBack == snap
ExecRollback ==
    /\ Ready("ROLLBACK")
    /\ inTxn
    /\ groups' = RolledBack.g
    /\ locations' = RolledBack.l
    /\ inTxn' = FALSE
    /\ snap' = NoSnap
    /\ queue' = Rest
    /\ UNCHANGED <<ops, alive, clock, nextG, nextL, load>>

\* ROLLBACK with no open transaction: "cannot rollback - no transaction is active"
ExecRollbackIdle ==
    /\ Ready("ROLLBACK")
    /\ ~inTxn
    /\ (ErrorIgnored \/ ProcessEnds)

\* COMMIT: ends the transaction, or fails with "cannot commit - no transaction is active"
CommitFails == ~inTxn
Commit ==
    /\ inTxn' = FALSE
    /\ snap' = NoSnap
    /\ UNCHANGED <<groups, locations>>

(* ---------- addLocationsToGroup(groupId, locations) ---------- *)
\* the index forEach passes to the insert
InsertIndex(i) == i - 1

\* BEGIN and one insert per element, all queued by the forEach
AddLocationsStmts(s, ls, first, t) ==
    <<S0(s, "BEGIN")>> \o
    [i \in 1..Len(ls) |-> Stmt(s, "INS", first + i - 1, InsertIndex(i), ls[i], t)]

\* the caller's continuation after `await this.addLocationsToGroup(...)`
AfterAddResolved(s) ==
    IF ops[s].kind = "create" THEN <<S0(s, "COMMIT_C")>> ELSE <<S0(s, "COMMIT_R")>>
\* the caller's catch block
CallerCatch(s) == <<S0(s, "ROLLBACK")>>

\* calling addLocationsToGroup from a callback of slot s
CallAddLocations(s) ==
    IF Len(ops[s].locs) = 0
    THEN /\ queue' = Rest \o AfterAddResolved(s)
         /\ ops' = ops
         /\ nextL' = nextL
    ELSE /\ queue' = Rest \o AddLocationsStmts(s, ops[s].locs, nextL, clock)
         /\ ops' = [ops EXCEPT ![s].need = 0]
         /\ nextL' = nextL + Len(ops[s].locs)

\* NOT NULL on lat, lng, title
InsertFails(st) == ~st.c

\* the insert of one element and its callback
ExecIns ==
    /\ Ready("INS")
    /\ locations' = IF InsertFails(H) THEN locations
                    ELSE locations \cup {[id |-> H.a, gid |-> O.gid, col |-> DefaultColor,
                                          oi |-> H.b, cat |-> H.t]}
    /\ IF InsertFails(H) /\ ~O.hasError
       THEN /\ ops' = [ops EXCEPT ![H.s] = [Settled(O, "error", NoRes) EXCEPT !.hasError = TRUE]]
            /\ queue' = Rest \o <<S0(H.s, "ROLLBACK")>> \o CallerCatch(H.s)
       ELSE IF ~O.hasError
       THEN /\ ops' = [ops EXCEPT ![H.s].cnt = O.cnt + 1]
            /\ queue' = IF O.cnt + 1 = Len(O.locs) THEN Rest \o <<S0(H.s, "COMMIT_A")>>
                        ELSE Rest
       ELSE /\ ops' = ops
            /\ queue' = Rest
    /\ UNCHANGED <<groups, inTxn, snap, alive, clock, nextG, nextL, load>>

\* the COMMIT of addLocationsToGroup and its callback
ExecCommitAdd ==
    /\ Ready("COMMIT_A")
    /\ IF CommitFails
       THEN /\ ops' = [ops EXCEPT ![H.s] = Settled(O, "error", NoRes)]
            /\ queue' = Rest \o CallerCatch(H.s)
            /\ UNCHANGED <<groups, locations, inTxn, snap>>
       ELSE /\ Commit
            /\ ops' = ops
            /\ queue' = Rest \o AfterAddResolved(H.s)
    /\ UNCHANGED <<alive, clock, nextG, nextL, load>>

(* ---------- createLocationGroup ---------- *)
\* the group insert and its callback
ExecInsGroup ==
    /\ Ready("INSGROUP")
    /\ groups' = groups \cup {[id |-> O.gid, dev |-> O.dev, name |-> O.name, upd |-> O.now]}
    /\ CallAddLocations(H.s)
    /\ UNCHANGED <<locations, inTxn, snap, alive, clock, nextG, load>>

\* the final COMMIT and its callback
ExecCommitCreate ==
    /\ Ready("COMMIT_C")
    /\ IF CommitFails
       THEN /\ ops' = [ops EXCEPT ![H.s] = Settled(O, "error", NoRes)]
            /\ UNCHANGED <<groups, locations, inTxn, snap>>
       ELSE /\ Commit
            /\ ops' = [ops EXCEPT ![H.s] = Settled(O, "ok", [name |-> O.name, list |-> <<>>])]
    /\ queue' = Rest
    /\ UNCHANGED <<alive, clock, nextG, nextL, load>>

(* ---------- getLocationGroup / getLocationsForGroup ---------- *)
\* SELECT * FROM location_groups WHERE id = ? AND device_id = ?, and its callback
ExecGetGroup ==
    /\ Ready("GETGROUP")
    /\ IF GroupRow(O.gid, O.dev) = {}
       THEN /\ ops' = [ops EXCEPT ![H.s] = Settled(O, "notfound", NoRes)]
            /\ queue' = Rest
       ELSE /\ \E row \in GroupRow(O.gid, O.dev) :
                    ops' = [ops EXCEPT ![H.s].res = [name |-> row.name, list |-> <<>>]]
            /\ queue' = Rest \o <<S0(H.s, "SELLOCS")>>
    /\ UNCHANGED <<groups, locations, inTxn, snap, alive, clock, nextG, nextL, load>>

\* SELECT * FROM locations WHERE group_id = ? ORDER BY order_index ASC, created_at ASC
ExecSelLocs ==
    /\ Ready("SELLOCS")
    /\ \E q \in OrderedLists(locations, O.gid) :
            ops' = [ops EXCEPT ![H.s] = Settled(O, "ok", [name |-> O.res.name, list |-> q])]
    /\ queue' = Rest
    /\ UNCHANGED <<groups, locations, inTxn, snap, alive, clock, nextG, nextL, load>>

(* ---------- updateLocationGroup / replaceLocationsInGroup ---------- *)
\* `this.changes === 0` inside an arrow function: `this` is the DatabaseService, which
\* has no `changes`, so the comparison is undefined === 0
ChangesIsZero(changes) == FALSE

\* UPDATE location_groups SET updated_at = ? [, name = ?] WHERE id = ? AND device_id = ?
ExecUpdGroup ==
    /\ Ready("UPDGROUP")
    /\ groups' = {IF g.id = O.gid /\ g.dev = O.dev
                  THEN [g EXCEPT !.upd = O.now,
                                 !.name = IF O.name = NoName THEN g.name ELSE O.name]
                  ELSE g : g \in groups}
    /\ IF ChangesIsZero(Cardinality(GroupRow(O.gid, O.dev)))
       THEN /\ ops' = [ops EXCEPT ![H.s] = Settled(O, "notfound", NoRes)]
            /\ queue' = Rest
       ELSE /\ ops' = ops
            /\ queue' = IF O.hasLocs
                        THEN Rest \o <<S0(H.s, "BEGIN"), S0(H.s, "DELLOCS_R")>>
                        ELSE Rest \o <<S0(H.s, "GETGROUP")>>
    /\ UNCHANGED <<locations, inTxn, snap, alive, clock, nextG, nextL, load>>

\* replaceLocationsInGroup: DELETE FROM locations WHERE group_id = ?, and its callback
ExecDelLocsReplace ==
    /\ Ready("DELLOCS_R")
    /\ locations' = locations \ LocsOf(locations, O.gid)
    /\ CallAddLocations(H.s)
    /\ UNCHANGED <<groups, inTxn, snap, alive, clock, nextG, load>>

\* replaceLocationsInGroup: COMMIT and its callback, then updateLocationGroup goes on
ExecCommitReplace ==
    /\ Ready("COMMIT_R")
    /\ IF CommitFails
       THEN /\ ops' = [ops EXCEPT ![H.s] = Settled(O, "error", NoRes)]
            /\ queue' = Rest
            /\ UNCHANGED <<groups, locations, inTxn, snap>>
       ELSE /\ Commit
            /\ ops' = ops
            /\ queue' = Rest \o <<S0(H.s, "GETGROUP")>>
    /\ UNCHANGED <<alive, clock, nextG, nextL, load>>

(* ---------- deleteLocationGroup ---------- *)
\* DELETE FROM locations WHERE group_id = ?, and its callback
ExecDelLocsDelete ==
    /\ Ready("DELLOCS_D")
    /\ locations' = locations \ LocsOf(locations, O.gid)
    /\ queue' = Rest \o <<S0(H.s, "DELGROUP")>>
    /\ UNCHANGED <<groups, inTxn, snap, ops, alive, clock, nextG, nextL, load>>

\* DELETE FROM location_groups WHERE id = ? AND device_id = ?, and its callback
ExecDelGroup ==
    /\ Ready("DELGROUP")
    /\ groups' = groups \ GroupRow(O.gid, O.dev)
    /\ IF GroupRow(O.gid, O.dev) = {}
       THEN /\ ops' = [ops EXCEPT ![H.s] = Settled(O, "notfound", NoRes)]
            /\ queue' = Rest \o <<S0(H.s, "ROLLBACK")>>
       ELSE /\ ops' = ops
            /\ queue' = Rest \o <<S0(H.s, "COMMIT_D")>>
    /\ UNCHANGED <<locations, inTxn, snap, alive, clock, nextG, nextL, load>>

\* COMMIT and its callback
ExecCommitDelete ==
    /\ Ready("COMMIT_D")
    /\ IF CommitFails
       THEN /\ ops' = [ops EXCEPT ![H.s] = Settled(O, "error", NoRes)]
            /\ UNCHANGED <<groups, locations, inTxn, snap>>
       ELSE /\ Commit
            /\ ops' = [ops EXCEPT ![H.s] = Settled(O, "ok", NoRes)]
    /\ queue' = Rest
    /\ UNCHANGED <<alive, clock, nextG, nextL, load>>

(* ---------- addLocationToGroup ---------- *)
\* SELECT id FROM location_groups WHERE id = ? AND device_id = ?, and its callback
ExecCheckAdd ==
    /\ Ready("CHECK_ADD")
    /\ IF GroupRow(O.gid, O.dev) = {}
       THEN /\ ops' = [ops EXCEPT ![H.s] = [Settled(O, "notfound", NoRes) EXCEPT !.need = 0]]
            /\ queue' = Rest
            /\ nextL' = nextL
       ELSE /\ ops' = [ops EXCEPT ![H.s].need = 0]
            /\ queue' = Rest \o <<Stmt(H.s, "INSADD", nextL, 0, TRUE, clock)>>
            /\ nextL' = nextL + 1
    /\ UNCHANGED <<groups, locations, inTxn, snap, alive, clock, nextG, load>>

\* INSERT ... (SELECT COALESCE(MAX(order_index), 0) + 1 ...), and its callback
ExecInsAdd ==
    /\ Ready("INSADD")
    /\ locations' = locations \cup {[id |-> H.a, gid |-> O.gid, col |-> O.col,
                                     oi |-> MaxOrderPlusOne(locations, O.gid), cat |-> H.t]}
    /\ ops' = [ops EXCEPT ![H.s] = Settled(O, "ok", [name |-> NoName, list |-> <<H.a>>])]
    /\ queue' = Rest \o <<Stmt(H.s, "TOUCH", 0, 0, TRUE, H.t)>>
    /\ UNCHANGED <<groups, inTxn, snap, alive, clock, nextG, nextL, load>>

\* UPDATE location_groups SET updated_at = ? WHERE id = ?   (no callback)
ExecTouch ==
    /\ Ready("TOUCH")
    /\ groups' = TouchGroup(groups, O.gid, H.t)
    /\ queue' = Rest
    /\ UNCHANGED <<locations, inTxn, snap, ops, alive, clock, nextG, nextL, load>>

(* ---------- reorderLocations ---------- *)
\* the index forEach passes to the update
ReorderIndexFromOne(i) == i
ReorderIndex(i) == i - 1

\* the ownership query and its callback: BEGIN and one UPDATE per id
ExecCheckReorder ==
    /\ Ready("CHECK_REORDER")
    /\ IF GroupRow(O.gid, O.dev) = {}
       THEN /\ ops' = [ops EXCEPT ![H.s] = Settled(O, "notfound", NoRes)]
            /\ queue' = Rest
       ELSE /\ ops' = ops
            /\ queue' = Rest \o <<S0(H.s, "BEGIN")>> \o
                        [i \in 1..Len(O.ids) |->
                            Stmt(H.s, "UPDOI", O.ids[i], ReorderIndex(i), TRUE, 0)]
    /\ UNCHANGED <<groups, locations, inTxn, snap, alive, clock, nextG, nextL, load>>

\* UPDATE locations SET order_index = ? WHERE id = ? AND group_id = ?, and its callback;
\* an UPDATE that matches no row is no error
ExecUpdOrder ==
    /\ Ready("UPDOI")
    /\ locations' = {IF l.id = H.a /\ l.gid = O.gid THEN [l EXCEPT !.oi = H.b] ELSE l :
                        l \in locations}
    /\ ops' = [ops EXCEPT ![H.s].cnt = O.cnt + 1]
    /\ queue' = IF O.cnt + 1 = Len(O.ids)
                THEN Rest \o <<Stmt(H.s, "TOUCH_RO", 0, 0, TRUE, clock)>>
                ELSE Rest
    /\ UNCHANGED <<groups, inTxn, snap, alive, clock, nextG, nextL, load>>

\* UPDATE location_groups SET updated_at = ? WHERE id = ?, and its callback
ExecTouchReorder ==
    /\ Ready("TOUCH_RO")
    /\ groups' = TouchGroup(groups, O.gid, H.t)
    /\ queue' = Rest \o <<S0(H.s, "COMMIT_RO")>>
    /\ UNCHANGED <<locations, inTxn, snap, ops, alive, clock, nextG, nextL, load>>

\* COMMIT and its callback
ExecCommitReorder ==
    /\ Ready("COMMIT_RO")
    /\ IF CommitFails
       THEN /\ ops' = [ops EXCEPT ![H.s] = Settled(O, "error", NoRes)]
            /\ UNCHANGED <<groups, locations, inTxn, snap>>
       ELSE /\ Commit
            /\ ops' = [ops EXCEPT ![H.s] = Settled(O, "ok", NoRes)]
    /\ queue' = Rest
    /\ UNCHANGED <<alive, clock, nextG, nextL, load>>

(* ---------- deleteLocation ---------- *)
\* the ownership query and its callback
ExecCheckDeleteLocation ==
    /\ Ready("CHECK_DELLOC")
    /\ IF GroupRow(O.gid, O.dev) = {}
       THEN /\ ops' = [ops EXCEPT ![H.s] = Settled(O, "notfound", NoRes)]
            /\ queue' = Rest
       ELSE /\ ops' = ops
            /\ queue' = Rest \o <<S0(H.s, "DELLOC")>>
    /\ UNCHANGED <<groups, locations, inTxn, snap, alive, clock, nextG, nextL, load>>

\* DELETE FROM locations WHERE id = ? AND group_id = ?, and its callback
ExecDeleteLocation ==
    /\ Ready("DELLOC")
    /\ LET hit == {l \in locations : l.id = O.lid /\ l.gid = O.gid}
       IN /\ locations' = locations \ hit
          /\ IF hit = {}
             THEN /\ ops' = [ops EXCEPT ![H.s] = Settled(O, "notfound", NoRes)]
                  /\ queue' = Rest
             ELSE /\ ops' = [ops EXCEPT ![H.s] = Settled(O, "ok", NoRes)]
                  /\ queue' = Rest \o <<Stmt(H.s, "TOUCH", 0, 0, TRUE, clock)>>
    /\ UNCHANGED <<groups, inTxn, snap, alive, clock, nextG, nextL, load>>

(* ---------- updateLocation ---------- *)
\* a payload that pushes no set clause
NoValidUpdatesNever(col) == FALSE

\* `setClauses.length === 0`: color is the only field that pushes a set clause
NoValidUpdates(col) == col = NoColor

\* the ownership query and its callback; without a color: 'No valid updates provided'
ExecCheckUpdateLocation ==
    /\ Ready("CHECK_UPDLOC")
    /\ IF GroupRow(O.gid, O.dev) = {}
       THEN /\ ops' = [ops EXCEPT ![H.s] = Settled(O, "notfound", NoRes)]
            /\ queue' = Rest
       ELSE IF NoValidUpdates(O.col)
       THEN /\ ops' = [ops EXCEPT ![H.s] = Settled(O, "novalid", NoRes)]
            /\ queue' = Rest
       ELSE /\ ops' = ops
            /\ queue' = Rest \o <<S0(H.s, "UPDCOL")>>
    /\ UNCHANGED <<groups, locations, inTxn, snap, alive, clock, nextG, nextL, load>>

\* UPDATE locations SET color = ? WHERE id = ? AND group_id = ?, and its callback
ExecUpdateColor ==
    /\ Ready("UPDCOL")
    /\ LET hit == {l \in locations : l.id = O.lid /\ l.gid = O.gid}
       IN /\ locations' = (locations \ hit) \cup {[l EXCEPT !.col = O.col] : l \in hit}
          /\ IF hit = {}
             THEN /\ ops' = [ops EXCEPT ![H.s] = Settled(O, "notfound", NoRes)]
                  /\ queue' = Rest
             ELSE /\ ops' = ops
                  /\ queue' = Rest \o <<Stmt(H.s, "TOUCH", 0, 0, TRUE, clock),
                                        S0(H.s, "SELLOC")>>
    /\ UNCHANGED <<groups, inTxn, snap, alive, clock, nextG, nextL, load>>

\* SELECT * FROM locations WHERE id = ?, and its callback, which reads row.id
ExecSelLoc ==
    /\ Ready("SELLOC")
    /\ \E l \in locations : l.id = O.lid
    /\ ops' = [ops EXCEPT ![H.s] = Settled(O, "ok", [name |-> NoName, list |-> <<O.lid>>])]
    /\ queue' = Rest
    /\ UNCHANGED <<groups, locations, inTxn, snap, alive, clock, nextG, nextL, load>>

\* the row is gone: `row.id` of undefined throws inside the callback
ExecSelLocMissing ==
    /\ Ready("SELLOC")
    /\ ~\E l \in locations : l.id = O.lid
    /\ ProcessEnds

(* ---------- the route handler answers ---------- *)
\* res.json / res.status(...).json after the awaited call settled; the closure is dropped
\* once its last queued statement has run
Reply(s) ==
    /\ alive
    /\ ops[s] # FreeOp
    /\ Quiescent(s)
    /\ ops' = [ops EXCEPT ![s] = FreeOp]
    /\ UNCHANGED <<groups, locations, inTxn, snap, queue, alive, clock, nextG, nextL, load>>
    /\ UNCHANGED page

(* ---------- the system ---------- *)
Exec ==
    \/ ExecBegin \/ ExecBeginNested \/ ExecRollback \/ ExecRollbackIdle
    \/ ExecIns \/ ExecCommitAdd \/ ExecInsGroup \/ ExecCommitCreate
    \/ ExecGetGroup \/ ExecSelLocs
    \/ ExecUpdGroup \/ ExecDelLocsReplace \/ ExecCommitReplace
    \/ ExecDelLocsDelete \/ ExecDelGroup \/ ExecCommitDelete
    \/ ExecCheckAdd \/ ExecInsAdd \/ ExecTouch
    \/ ExecCheckReorder \/ ExecUpdOrder \/ ExecTouchReorder \/ ExecCommitReorder
    \/ ExecCheckDeleteLocation \/ ExecDeleteLocation
    \/ ExecCheckUpdateLocation \/ ExecUpdateColor \/ ExecSelLoc

Request ==
    \E s \in Slots :
        \/ StartCreate(s) \/ StartGet(s) \/ StartUpdate(s) \/ StartDelete(s)
        \/ StartAdd(s) \/ StartReorder(s) \/ StartDeleteLocation(s)
        \/ StartUpdateLocation(s) \/ Reply(s)

Next == Request \/ Exec \/ Tick

Spec == Init /\ [][Next]_vars

NextConc == Next \/ ExecSelLocMissing

SpecConc == InitConc /\ [][NextConc]_vars

\* the requests of a client that creates no group, and the statements they queue
RequestTwo ==
    \E s \in Slots :
        \/ StartGet(s) \/ StartUpdate(s) \/ StartDelete(s)
        \/ StartAdd(s) \/ StartReorder(s) \/ StartDeleteLocation(s)
        \/ StartUpdateLocation(s) \/ Reply(s)

ExecTwo ==
    \/ ExecBegin \/ ExecBeginNested \/ ExecRollback \/ ExecRollbackIdle
    \/ ExecIns \/ ExecCommitAdd
    \/ ExecGetGroup \/ ExecSelLocs
    \/ ExecUpdGroup \/ ExecDelLocsReplace \/ ExecCommitReplace
    \/ ExecDelLocsDelete \/ ExecDelGroup \/ ExecCommitDelete
    \/ ExecCheckAdd \/ ExecInsAdd \/ ExecTouch
    \/ ExecCheckReorder \/ ExecUpdOrder \/ ExecTouchReorder \/ ExecCommitReorder
    \/ ExecCheckDeleteLocation \/ ExecDeleteLocation
    \/ ExecCheckUpdateLocation \/ ExecUpdateColor \/ ExecSelLoc

NextTwo == RequestTwo \/ ExecTwo

SpecTwo == InitTwo /\ [][NextTwo]_vars

(* ====================== the Express router ====================== *)
\* A path under /api/location-groups is the sequence of its remaining segments.  Uuid
\* stands for a well-formed UUID; "reorder" and "locations" are the literals of the routes.
Uuid == "3f2504e0-4f89-41d3-9a0c-0305e82c3301"
Segments == {Uuid, "locations", "reorder"}
MaxPath == 3
Paths == UNION {[1..n -> Segments] : n \in 0..MaxPath}
Methods == {"GET", "POST", "PUT", "DELETE"}
\* request bodies: {}, {color} well- or ill-formed, {locationIds} an array of strings or
\* not an array, {name}, {lat, lng, title}
Bodies == {"empty", "color", "badcolor", "ids", "notarray", "name", "location"}
Params == {":id", ":groupId", ":locationId"}

\* the routes of defineRoutes under /api/location-groups, in the order of registration
Routes == <<
    [method |-> "GET",    pattern |-> <<>>,                                    handler |-> "list"],
    [method |-> "GET",    pattern |-> <<":id">>,                               handler |-> "get"],
    [method |-> "POST",   pattern |-> <<>>,                                    handler |-> "create"],
    [method |-> "PUT",    pattern |-> <<":id">>,                               handler |-> "update"],
    [method |-> "DELETE", pattern |-> <<":id">>,                               handler |-> "delete"],
    [method |-> "POST",   pattern |-> <<":id", "locations">>,                  handler |-> "add"],
    [method |-> "PUT",    pattern |-> <<":groupId", "locations", ":locationId">>, handler |-> "recolor"],
    [method |-> "PUT",    pattern |-> <<":groupId", "locations", "reorder">>,  handler |-> "reorder"],
    [method |-> "DELETE", pattern |-> <<":groupId", "locations", ":locationId">>, handler |-> "deleteLocation"] >>

\* path-to-regexp: a parameter takes any one segment, a literal only itself
Matches(r, method, path) ==
    /\ r.method = method
    /\ Len(r.pattern) = Len(path)
    /\ \A i \in 1..Len(path) : r.pattern[i] \in Params \/ r.pattern[i] = path[i]

\* param(...).isUUID()
IsUUID(seg) == seg = Uuid

\* the validators in front of each handler
BodyValid(handler, body) ==
    CASE handler = "create"  -> body = "name"
      [] handler = "add"     -> body = "location"
      [] handler = "recolor" -> body # "badcolor"
      [] handler = "reorder" -> body = "ids"
      [] OTHER               -> TRUE

Valid(r, path, body) ==
    /\ \A i \in 1..Len(path) : r.pattern[i] \in Params => IsUUID(path[i])
    /\ BodyValid(r.handler, body)

\* what each handler answers with, by the outcome of its DatabaseService call
Statuses(handler) ==
    CASE handler = "list"   -> {200, 500}
      [] handler = "create" -> {201, 500}
      [] handler = "add"    -> {201, 404, 500}
      [] handler \in {"delete", "deleteLocation"} -> {204, 404, 500}
      [] OTHER              -> {200, 404, 500}

httpOnly == UNCHANGED <<server, text, bulk, api, devices, drag, counter>>

\* a request arrives at the router
Receive ==
    /\ http.pc = "idle"
    /\ \E m \in Methods, p \in Paths, b \in Bodies :
         http' = [pc |-> "device", method |-> m, path |-> p, body |-> b,
                  route |-> 1, status |-> 0]
    /\ httpOnly

\* the connection is opened without PRAGMA foreign_keys = ON
ForeignKeysEnforced == FALSE

\* INSERT OR REPLACE INTO devices (device_id, last_seen) VALUES (?, CURRENT_TIMESTAMP):
\* a row with this id is deleted, and the new row takes the default of created_at
RegisterRow(D, d, t) ==
    {r \in D : r.id # d} \cup {[id |-> d, created |-> t, seen |-> t]}

\* deviceIdMiddleware, mounted on /api/ in front of the routes: the id of the cookie (or
\* a new one) is registered, then next()
RegisterDevice ==
    /\ http.pc = "device"
    /\ \E d \in Devs :
         /\ devices' = RegisterRow(devices, d, clock)
         /\ LET cascade == ForeignKeysEnforced /\ \E r \in devices : r.id = d
                gone == {g \in groups : g.dev = d}
            IN /\ groups' = IF cascade THEN groups \ gone ELSE groups
               /\ locations' = IF cascade
                               THEN {l \in locations : \A g \in gone : l.gid # g.id}
                               ELSE locations
    /\ http' = [http EXCEPT !.pc = "routing"]
    /\ UNCHANGED <<inTxn, snap, queue, ops, alive, clock, nextG, nextL, load>>
    /\ UNCHANGED <<text, bulk, api, drag, counter>>

\* the router passes over a route that does not match
RouteSkip ==
    /\ http.pc = "routing"
    /\ http.route <= Len(Routes)
    /\ ~Matches(Routes[http.route], http.method, http.path)
    /\ http' = [http EXCEPT !.route = @ + 1]
    /\ httpOnly

\* the first matching route takes the request
RouteMatch ==
    /\ http.pc = "routing"
    /\ http.route <= Len(Routes)
    /\ Matches(Routes[http.route], http.method, http.path)
    /\ http' = [http EXCEPT !.pc = "validating"]
    /\ httpOnly

\* no route matched: Express answers 404
RouteNone ==
    /\ http.pc = "routing"
    /\ http.route > Len(Routes)
    /\ http' = [http EXCEPT !.pc = "done", !.route = 0, !.status = 404]
    /\ httpOnly

\* handleValidationErrors answers 400 and does not call next()
ValidationFails ==
    /\ http.pc = "validating"
    /\ ~Valid(Routes[http.route], http.path, http.body)
    /\ http' = [http EXCEPT !.pc = "done", !.status = 400]
    /\ httpOnly

\* handleValidationErrors calls next(): the handler runs and answers
HandlerAnswers ==
    /\ http.pc = "validating"
    /\ Valid(Routes[http.route], http.path, http.body)
    /\ \E st \in Statuses(Routes[http.route].handler) :
         http' = [http EXCEPT !.pc = "done", !.status = st]
    /\ httpOnly

\* the response is sent; the router is ready for the next request
ResponseSent ==
    /\ http.pc = "done"
    /\ http' = NoHttp
    /\ httpOnly

NextRoute ==
    \/ Receive \/ RegisterDevice \/ RouteSkip \/ RouteMatch \/ RouteNone
    \/ ValidationFails \/ HandlerAnswers \/ ResponseSent \/ Tick

\* the router in front of a store where device A has a group with one location
InitRoute ==
    /\ groups = SeededStore.g
    /\ locations = SeededStore.l
    /\ inTxn = FALSE
    /\ snap = NoSnap
    /\ queue = <<>>
    /\ ops = [s \in Slots |-> FreeOp]
    /\ alive = TRUE
    /\ clock = 0
    /\ nextG = 2
    /\ nextL = 2
    /\ limit = 1
    /\ budget = 0
    /\ PageIdle

SpecRoute == InitRoute /\ [][NextRoute]_vars

(* ====================== parseAddresses (script.js) ====================== *)
\* A string is the sequence of its characters.
MaxInput   == 6     \* longest text typed into the textarea
InputCap   == 5     \* `input.length > 10000`, scaled to the inputs above
AddressLen == 2     \* `addr.length > 200`, scaled
AddressCap == 2     \* `.slice(0, 50)`, scaled

NewLine == "\n"
Comma == ","
Alphabet == {"a", "b", "c", Comma, NewLine, " ", "<"}
WhiteSpace == {" ", NewLine}
AngleBrackets == {"<", ">"}
Inputs == UNION {[1..n -> Alphabet] : n \in 0..MaxInput}

\* String.prototype.trim
RECURSIVE TrimLeft(_)
TrimLeft(str) ==
    IF str # <<>> /\ Head(str) \in WhiteSpace THEN TrimLeft(Tail(str)) ELSE str
RECURSIVE TrimRight(_)
TrimRight(str) ==
    IF str # <<>> /\ str[Len(str)] \in WhiteSpace
    THEN TrimRight(SubSeq(str, 1, Len(str) - 1)) ELSE str
Trim(str) == TrimRight(TrimLeft(str))

\* str.substring(0, n)
Substring(str, n) == IF Len(str) > n THEN SubSeq(str, 1, n) ELSE str

\* str.split(sep): the pieces between the separators, empty pieces included
RECURSIVE SplitFrom(_, _, _)
SplitFrom(str, sep, piece) ==
    IF str = <<>> THEN <<piece>>
    ELSE IF Head(str) = sep THEN <<piece>> \o SplitFrom(Tail(str), sep, <<>>)
    ELSE SplitFrom(Tail(str), sep, Append(piece, Head(str)))
Split(str, sep) == SplitFrom(str, sep, <<>>)

\* array.map(addr => addr.trim()).filter(addr => addr)
RECURSIVE TrimAndFilter(_)
TrimAndFilter(arr) ==
    IF arr = <<>> THEN <<>>
    ELSE (IF Trim(Head(arr)) = <<>> THEN <<>> ELSE <<Trim(Head(arr))>>)
         \o TrimAndFilter(Tail(arr))

Includes(str, ch) == \E i \in 1..Len(str) : str[i] = ch

\* addr.replace(/[<>]/g, '')
RECURSIVE StripBrackets(_)
StripBrackets(str) ==
    IF str = <<>> THEN <<>>
    ELSE (IF Head(str) \in AngleBrackets THEN <<>> ELSE <<Head(str)>>)
         \o StripBrackets(Tail(str))

\* the callback of the sanitizing map
Sanitize(addr) == Trim(Substring(StripBrackets(addr), AddressLen))

\* addresses.map(sanitize).filter(addr => addr.length > 0)
RECURSIVE SanitizeAll(_)
SanitizeAll(arr) ==
    IF arr = <<>> THEN <<>>
    ELSE (IF Sanitize(Head(arr)) = <<>> THEN <<>> ELSE <<Sanitize(Head(arr))>>)
         \o SanitizeAll(Tail(arr))

\* an array spread as it is, duplicates kept
KeepDuplicates(arr) == arr

\* [...new Set(addresses)]: insertion order, later duplicates dropped
RECURSIVE SetOf(_)
SetOf(arr) ==
    IF arr = <<>> THEN <<>>
    ELSE LET init == SetOf(SubSeq(arr, 1, Len(arr) - 1))
             last == arr[Len(arr)]
         IN IF \E i \in 1..Len(init) : init[i] = last THEN init ELSE Append(init, last)

\* the text that is split: trimmed and cut to the input limit
Truncated(input) == Substring(Trim(input), InputCap)

\* input.split('\n').map(trim).filter(nonempty)
Lines(input) == TrimAndFilter(Split(Truncated(input), NewLine))

\* a comma anywhere in the first line, however many lines there are
CommaInFirstLine(lines) == lines # <<>> /\ Includes(lines[1], Comma)

\* `addresses.length === 1 && addresses[0].includes(',')`
SplitByCommas(lines) == Len(lines) = 1 /\ Includes(lines[1], Comma)

\* the candidate addresses before and after sanitizing
Candidates(input) ==
    LET lines == Lines(input)
    IN IF SplitByCommas(lines) THEN TrimAndFilter(Split(lines[1], Comma)) ELSE lines
Sanitized(input) == SanitizeAll(Candidates(input))

parseAddresses(input) ==
    IF Trim(input) = <<>> THEN <<>>
    ELSE Substring(SetOf(Sanitized(input)), AddressCap)

serverAndHttp == <<server, http, bulk, api, devices, drag>>

\* some text is in the textarea
InitParse ==
    /\ ServerFresh
    /\ http = NoHttp
    /\ bulk = NoBulk
    /\ Elsewhere
    /\ \E input \in Inputs : text = [input |-> input, parsed |-> FALSE, addresses |-> <<>>]

\* updateAddressCount / startBulkUpload: parseAddresses(textarea.value)
ParseInput ==
    /\ ~text.parsed
    /\ text' = [text EXCEPT !.parsed = TRUE, !.addresses = parseAddresses(text.input)]
    /\ UNCHANGED counter
    /\ UNCHANGED serverAndHttp

\* the input event of the textarea: updateAddressCount
UpdateAddressCount ==
    /\ ~counter.updated
    /\ LET addresses == parseAddresses(text.input)
       IN counter' = [updated |-> TRUE,
                      count |-> Len(addresses),
                      max |-> Len(addresses) > AddressCap,
                      startDisabled |-> Len(addresses) = 0]
    /\ UNCHANGED text
    /\ UNCHANGED serverAndHttp

NextParse == ParseInput \/ UpdateAddressCount

SpecParse == InitParse /\ [][NextParse]_vars

(* ====================== bulk import (script.js) ====================== *)
\* The page runs one callback at a time; a run of processBulkAddresses is suspended at
\* its awaits (geocode, addLocationToGroup, the 500 ms pause, fetchLocationGroups and the
\* 1 s timer), and between two of them it runs without interruption.

\* geocodeAddress: the text resolved for a status other than OK
GeocodeError(status) ==
    CASE status = "OVER_QUERY_LIMIT" -> "Rate limit exceeded"
      [] status = "REQUEST_DENIED"   -> "Request denied"
      [] status = "ZERO_RESULTS"     -> "No results found"
      [] OTHER                       -> "Address not found"

\* addLocationToGroup (script.js): a response that is not ok is thrown as an Error that
\* carries the server's error text; processBulkAddresses pushes error.message
ServerErrorText == "Failed to add location"
SaveToDatabaseText == "Failed to save to database"
\* the text of the branch `else` of `if (newLocation)`
SaveFailureAsElse(message) == SaveToDatabaseText
\* the text pushed by `catch (error)`
SaveFailureReason(message) == message

\* the loop does not advance
SameIndex(i) == i
\* i++
NextIndex(i) == i + 1

\* the loop head: `i < addresses.length`, then `if (bulkProcessingCancelled) break`,
\* then the call of geocodeAddress(addresses[i]); past the loop the run goes on to
\* updateMarkerList and fetchLocationGroups
LoopTop(cancelled, run) ==
    IF run.i >= run.n \/ cancelled
    THEN [run EXCEPT !.pc = "finishing"]
    ELSE [run EXCEPT !.pc = "geocoding", !.begun = @ + 1, !.inflight = @ + 1,
                     !.geocoded = Append(@, run.i + 1)]

\* the end of the loop body: the 500 ms pause unless this was the last address
ItemDone(cancelled, run) ==
    IF run.i < run.n - 1
    THEN [run EXCEPT !.pc = "delay"]
    ELSE LoopTop(cancelled, [run EXCEPT !.i = NextIndex(@)])

bulkOnly == UNCHANGED <<server, http, text, api, devices, drag, counter>>

\* click on the bulk upload button; it is reachable while no modal covers the page
OpenBulkUploadModal ==
    /\ bulk.modal = "none"
    /\ bulk' = [bulk EXCEPT !.modal = "upload", !.cancelled = FALSE]
    /\ bulkOnly

CloseBulkUploadModal ==
    /\ bulk.modal = "upload"
    /\ bulk' = [bulk EXCEPT !.modal = "none"]
    /\ bulkOnly

\* startBulkUpload with a group selected and no new group name, then processBulkAddresses
\* up to its first await
StartBulkUpload(r) ==
    /\ bulk.modal = "upload"
    /\ bulk.run[r].pc = "idle"
    /\ \A q \in Runs : q < r => bulk.run[q].pc # "idle"
    /\ \E n \in 1..MaxAddresses :
         bulk' = [bulk EXCEPT
                    !.modal = "progress",
                    !.colorIndex = 0,
                    !.run[r] = LoopTop(bulk.cancelled,
                                       [NoRun EXCEPT !.n = n, !.target = bulk.group])]
    /\ bulkOnly

\* the geocoder's callback: on OK the next color is taken and addLocationToGroup is called
\* with the current group; otherwise the address is pushed to results.failed
GeocodeReturns(r) ==
    /\ bulk.run[r].pc = "geocoding"
    /\ \E status \in GeocodeStatuses :
         LET run == [bulk.run[r] EXCEPT !.inflight = @ - 1]
             addr == run.i + 1
         IN IF status = "OK"
            THEN bulk' = [bulk EXCEPT
                            !.colorIndex = @ + 1,
                            !.run[r] = [run EXCEPT !.pc = "saving", !.inflight = @ + 1,
                                                   !.color = bulk.colorIndex % PaletteSize,
                                                   !.dest = bulk.group]]
            ELSE bulk' = [bulk EXCEPT
                            !.run[r] = ItemDone(bulk.cancelled,
                                [run EXCEPT !.failed = Append(@,
                                    [address |-> addr, reason |-> GeocodeError(status),
                                     geocoded |-> FALSE])])]
    /\ bulkOnly


\* the POST of addLocationToGroup is answered: 201 with the stored location (a marker is
\* created and the address pushed to results.successful), or an error that is thrown
\* and caught by the catch of the loop body
SaveReturns(r) ==
    /\ bulk.run[r].pc = "saving"
    /\ \E outcome \in SaveOutcomes :
         LET run == [bulk.run[r] EXCEPT !.inflight = @ - 1]
             addr == run.i + 1
         IN IF outcome = "created"
            THEN bulk' = [bulk EXCEPT
                            !.saved = @ \cup {[run |-> r, address |-> addr,
                                               color |-> run.color, group |-> run.dest]},
                            !.markers = @ \cup {[run |-> r, address |-> addr]},
                            !.run[r] = ItemDone(bulk.cancelled,
                                [run EXCEPT !.successful = Append(@,
                                    [address |-> addr, color |-> run.color])])]
            ELSE bulk' = [bulk EXCEPT
                            !.run[r] = ItemDone(bulk.cancelled,
                                [run EXCEPT !.failed = Append(@,
                                    [address |-> addr,
                                     reason |-> SaveFailureReason(ServerErrorText),
                                     geocoded |-> TRUE])])]
    /\ bulkOnly

\* the 500 ms pause is over: i++ and the loop head
DelayEnds(r) ==
    /\ bulk.run[r].pc = "delay"
    /\ bulk' = [bulk EXCEPT
                  !.run[r] = LoopTop(bulk.cancelled, [bulk.run[r] EXCEPT !.i = NextIndex(@)])]
    /\ bulkOnly

\* after fetchLocationGroups and the 1 s timer: closeProgressModal, showResultsModal
FinishRun(r) ==
    /\ bulk.run[r].pc = "finishing"
    /\ bulk' = [bulk EXCEPT !.run[r].pc = "finished",
                            !.modal = IF @ = "upload" THEN "upload" ELSE "results"]
    /\ bulkOnly

\* cancelBulkProcessing: the button of the progress modal
CancelBulkProcessing ==
    /\ bulk.modal = "progress"
    /\ bulk' = [bulk EXCEPT
                  !.cancelled = TRUE,
                  !.modal = "none",
                  !.run = [r \in Runs |->
                             IF bulk.run[r].pc \in {"geocoding", "saving", "delay"}
                                /\ bulk.run[r].cancelledAt = NotCancelled
                             THEN [bulk.run[r] EXCEPT !.cancelledAt = bulk.run[r].begun]
                             ELSE bulk.run[r]]]
    /\ bulkOnly

CloseResultsModal ==
    /\ bulk.modal = "results"
    /\ bulk' = [bulk EXCEPT !.modal = "none"]
    /\ bulkOnly

\* selectGroup: a click in the group dropdown, reachable while no modal covers the page
SelectGroup ==
    /\ bulk.modal = "none"
    /\ \E g \in PageGroups \ {bulk.group} : bulk' = [bulk EXCEPT !.group = g]
    /\ bulkOnly

NextBulk ==
    \/ OpenBulkUploadModal \/ CloseBulkUploadModal \/ CancelBulkProcessing
    \/ CloseResultsModal \/ SelectGroup
    \/ \E r \in Runs :
         \/ StartBulkUpload(r) \/ GeocodeReturns(r) \/ SaveReturns(r)
         \/ DelayEnds(r) \/ FinishRun(r)

SpecBulk == Init /\ [][NextBulk]_vars

(* ====================== validation of location payloads ====================== *)
\* A location of a request body, by what its fields are: lat and lng absent, inside
\* their range or outside it; title absent, '', 1..200 characters, or longer.
MaxStored == 2      \* rows kept in view
CoordKinds == {"absent", "in", "out"}
TitleKinds == {"absent", "empty", "ok", "long"}
Payloads == [lat : CoordKinds, lng : CoordKinds, title : TitleKinds]
\* POST /api/location-groups, PUT /api/location-groups/:id, POST .../:id/locations
ApiRoutes == {"create", "update", "add"}

\* the validator chains in front of the three handlers, applied to one location
ItemValid(route, loc) ==
    CASE route = "create" -> /\ loc.lat \in {"absent", "in"}
                             /\ loc.lng \in {"absent", "in"}
                             /\ loc.title \in {"absent", "empty", "ok"}
      [] route = "update" -> TRUE
      [] route = "add"    -> loc.lat = "in" /\ loc.lng = "in" /\ loc.title = "ok"

\* lat REAL NOT NULL, lng REAL NOT NULL, title TEXT NOT NULL; nothing else is checked
RowAccepted(loc) == loc.lat # "absent" /\ loc.lng # "absent" /\ loc.title # "absent"

\* the owner of a group sends one location through one of the routes
SendLocation ==
    /\ \E route \in ApiRoutes, loc \in Payloads :
         LET valid == ItemValid(route, loc)
             wrote == valid /\ RowAccepted(loc)
             stored == IF wrote THEN api.stored \cup {loc} ELSE api.stored
         IN /\ Cardinality(stored) <= MaxStored
            /\ api' = [route |-> route, loc |-> loc,
                       answer |-> IF valid THEN "handler" ELSE "400",
                       wrote |-> wrote, stored |-> stored]
    /\ UNCHANGED <<server, http, text, bulk, devices, drag, counter>>

NextApi == SendLocation

SpecApi == Init /\ [][NextApi]_vars

(* ====================== properties ====================== *)
Answered(s) == ops[s].st \notin {"free", "pending"}
\* the call has been answered and every statement it queued has run
Done(s) == Answered(s) /\ ~HasStmt(s)
\* when the call was made, its group existed and belonged to the calling device
PreOwned(o) == \E g \in o.pre.g : g.id = o.gid /\ g.dev = o.dev
\* when the call was made, its group belonged to another device
PreForeign(o) == \E g \in o.pre.g : g.id = o.gid /\ g.dev # o.dev
GuardedKinds == {"get", "update", "delete", "add", "reorder", "delLoc", "updLoc"}
MutatingKinds == GuardedKinds \ {"get"}
IdsOf(L, gid) == {l.id : l \in LocsOf(L, gid)}
Range(q) == {q[i] : i \in 1..Len(q)}
IsPermutationOf(q, S) == Range(q) = S /\ Len(q) = Cardinality(S)

\* C1: a call on a group that the calling device does not own, or that does not exist,
\* is answered not-found and carries neither the group's name nor its locations.
C1_ForeignCallsEndNotFound ==
    \A s \in Slots :
        (Answered(s) /\ ops[s].kind \in GuardedKinds /\ ~PreOwned(ops[s]))
            => (ops[s].st = "notfound" /\ ops[s].res = NoRes)

\* C2: once a mutating call by a device that does not own the group is over, both tables
\* are what they were when the call was made.
C2_ForeignMutationsChangeNothing ==
    \A s \in Slots :
        (Done(s) /\ ops[s].kind \in MutatingKinds /\ PreForeign(ops[s]))
            => Store = ops[s].pre

\* C3: a reorder whose id list holds an id that is no location of the group is answered
\* as a failure and leaves every order_index of the group as it was.
C3_ReorderAllOrNothing ==
    \A s \in Slots :
        (Done(s) /\ ops[s].kind = "reorder" /\ PreOwned(ops[s])
            /\ ~(Range(ops[s].ids) \subseteq IdsOf(ops[s].pre.l, ops[s].gid)))
            => (ops[s].st # "ok"
                /\ LocsOf(locations, ops[s].gid) = LocsOf(ops[s].pre.l, ops[s].gid))

\* C4: after a successful reorder by the owner with a permutation of the group's location
\* ids, each location's order_index is its position in the list (from 0), and the only
\* order getLocationsForGroup can return is the submitted one.
C4_ReorderPermutation ==
    \A s \in Slots :
        (Done(s) /\ ops[s].kind = "reorder" /\ ops[s].st = "ok"
            /\ IsPermutationOf(ops[s].ids, IdsOf(ops[s].pre.l, ops[s].gid)))
            => (/\ \A i \in 1..Len(ops[s].ids) :
                       \E l \in LocsOf(locations, ops[s].gid) :
                           l.id = ops[s].ids[i] /\ l.oi = i - 1
                /\ OrderedLists(locations, ops[s].gid) = {ops[s].ids})

\* a reorder of two locations that turned their order around has succeeded
C4_Witness ==
    \E s \in Slots :
        /\ Done(s) /\ ops[s].kind = "reorder" /\ ops[s].st = "ok"
        /\ Len(ops[s].ids) = 2
        /\ IsPermutationOf(ops[s].ids, IdsOf(ops[s].pre.l, ops[s].gid))
        /\ OrderedLists(ops[s].pre.l, ops[s].gid) = {<<ops[s].ids[2], ops[s].ids[1]>>}

\* C5: once an insert of createLocationGroup's initial locations has failed and the
\* statements the call queued have run, the store holds neither the call's group row nor
\* any location row of that group, and the call was answered as a failure.
C5_CreateRollsBack ==
    \A s \in Slots :
        (ops[s].kind = "create" /\ ops[s].hasError /\ ~HasStmt(s))
            => (/\ ops[s].st = "error"
                /\ ~\E g \in groups : g.id = ops[s].gid
                /\ LocsOf(locations, ops[s].gid) = {})

\* a create whose first insert failed and whose second insert ran after it is over
C5_Witness ==
    \E s \in Slots :
        /\ ops[s].kind = "create" /\ ops[s].hasError /\ ~HasStmt(s)
        /\ ops[s].locs = <<FALSE, TRUE>>

\* C6: a createLocationGroup call whose initial locations are all valid is answered with
\* success, and the group then holds exactly n locations with order_index 0..n-1.
C6_ValidCreateSucceeds ==
    \A s \in Slots :
        (Done(s) /\ ops[s].kind = "create" /\ \A i \in 1..Len(ops[s].locs) : ops[s].locs[i])
            => (/\ ops[s].st = "ok"
                /\ {l.oi : l \in LocsOf(locations, ops[s].gid)} = 0..(Len(ops[s].locs) - 1)
                /\ Cardinality(LocsOf(locations, ops[s].gid)) = Len(ops[s].locs))

\* C7: after a successful deleteLocationGroup by the owner the group row and every
\* location row of the group are gone; and while such a delete is under way no
\* getLocationGroup is answered with the group stripped of the locations it had.
C7_DeleteIsAtomic ==
    /\ \A d \in Slots :
           (Done(d) /\ ops[d].kind = "delete" /\ ops[d].st = "ok")
               => (GroupRow(ops[d].gid, ops[d].dev) = {}
                   /\ LocsOf(locations, ops[d].gid) = {})
    /\ \A d, r \in Slots :
           (/\ ops[d].kind = "delete" /\ PreOwned(ops[d])
            /\ LocsOf(ops[d].pre.l, ops[d].gid) # {}
            /\ ops[r].kind = "get" /\ ops[r].gid = ops[d].gid /\ ops[r].st = "ok"
            /\ LocsOf(ops[r].pre.l, ops[r].gid) # {})
               => ops[r].res.list # <<>>

\* C8: an updateLocationGroup by the owner with a name and a locations list that is
\* answered as a failure leaves the group's row and its locations as they were.
C8_UpdateAtomic ==
    \A s \in Slots :
        (Done(s) /\ ops[s].kind = "update" /\ PreOwned(ops[s])
            /\ ops[s].name # NoName /\ ops[s].hasLocs /\ ops[s].st = "error")
            => (/\ \A g \in groups : g.id = ops[s].gid =>
                       \E h \in ops[s].pre.g : h.id = g.id /\ h.name = g.name
                /\ LocsOf(locations, ops[s].gid) = LocsOf(ops[s].pre.l, ops[s].gid))

\* C9: a group-level call answered as a failure has left both tables as they were.
C9_FailureMeansNoWrites ==
    \A s \in Slots :
        (Done(s) /\ ops[s].kind \in {"create", "update", "delete", "reorder"}
            /\ ops[s].st \in {"error", "notfound"})
            => Store = ops[s].pre

C11_NoValidUpdates ==
    \A s \in Slots :
        (Done(s) /\ ops[s].kind = "updLoc" /\ ops[s].col = NoColor)
            => /\ Store = ops[s].pre
               /\ ops[s].st = IF PreOwned(ops[s]) THEN "novalid" ELSE "notfound"

\* an owner's updateLocation without a color has been answered, on a group with a location
C11_Witness ==
    \E s \in Slots :
        /\ Done(s) /\ ops[s].kind = "updLoc" /\ ops[s].col = NoColor
        /\ PreOwned(ops[s]) /\ ops[s].st = "novalid"
        /\ \E l \in locations : l.id = ops[s].lid /\ l.gid = ops[s].gid

\* the row of group gid in a location_groups table
GroupOf(G, gid) == {g \in G : g.id = gid}
\* calls that rename a group or add, remove, recolor or reorder one of its locations
TouchingCall(o) ==
    \/ o.kind \in {"add", "delLoc", "updLoc", "reorder"}
    \/ o.kind = "update" /\ o.name # NoName

\* C12: once a successful rename, add, remove, recolor or reorder by the owner is over,
\* the group's updated_at is not older than the time of the call; and while a call on
\* one group runs, updated_at of every other group stays what it was.
C12_UpdatedAtRefreshed ==
    \A s \in Slots :
        /\ (Done(s) /\ ops[s].st = "ok" /\ PreOwned(ops[s]) /\ TouchingCall(ops[s]))
              => \A g \in GroupOf(groups, ops[s].gid) : g.upd >= ops[s].now
        /\ ops[s] # FreeOp
              => \A g \in groups :
                    g.id # ops[s].gid => g \in GroupOf(ops[s].pre.g, g.id)

\* a touching call made after the clock moved on is over, and the device has another group
C12_Witness ==
    \E s \in Slots :
        /\ Done(s) /\ ops[s].st = "ok" /\ PreOwned(ops[s]) /\ ops[s].kind = "updLoc"
        /\ ops[s].now > 0
        /\ \A g \in GroupOf(ops[s].pre.g, ops[s].gid) : g.upd < ops[s].now
        /\ \E g \in groups : g.id # ops[s].gid /\ g.upd < ops[s].now

\* a PUT to /api/location-groups/<uuid>/locations/reorder with an array of strings
IsReorderRequest(h) ==
    h.method = "PUT" /\ h.path = <<Uuid, "locations", "reorder">> /\ h.body = "ids"

\* C13: a well-formed PUT .../locations/reorder is taken by the reorder route and is not
\* answered 400.
C13_ReorderReachesHandler ==
    (http.pc = "done" /\ IsReorderRequest(http))
        => /\ http.route # 0
           /\ Routes[http.route].handler = "reorder"
           /\ http.status # 400

\* positions of the sanitized candidates at which a string occurs for the first time
FirstSeen(arr) == {i \in 1..Len(arr) : \A j \in 1..(i - 1) : arr[j] # arr[i]}
NoDuplicates(arr) == \A i, j \in 1..Len(arr) : i # j => arr[i] # arr[j]

\* C14: the parsed list has no duplicates and no empty string, at most AddressCap entries
\* of at most AddressLen characters without angle brackets, and its k-th entry is the
\* k-th distinct sanitized candidate in first-seen order.
C14_ParsedList ==
    text.parsed =>
        LET out == text.addresses
            cand == Sanitized(text.input)
            first == FirstSeen(cand)
        IN /\ NoDuplicates(out)
           /\ \A k \in 1..Len(out) :
                /\ out[k] # <<>>
                /\ Len(out[k]) <= AddressLen
                /\ \A ch \in AngleBrackets : ~Includes(out[k], ch)
           /\ Len(out) <= AddressCap
           /\ Len(out) = IF Cardinality(first) < AddressCap
                         THEN Cardinality(first) ELSE AddressCap
           /\ \A k \in 1..Len(out) :
                \E i \in first : /\ cand[i] = out[k]
                                 /\ Cardinality({j \in first : j < i}) = k - 1

\* more distinct candidates than the cap were parsed and the list was cut at the cap
C14_Witness ==
    /\ text.parsed
    /\ Cardinality(FirstSeen(Sanitized(text.input))) > AddressCap
    /\ Len(text.addresses) = AddressCap

\* C15: with two or more non-blank lines every parsed entry is a whole sanitized line,
\* commas included; with exactly one non-blank line that has a comma, the entries are the
\* pieces between its commas, so none of them holds a comma.
C15_CommaSplit ==
    text.parsed =>
        LET out == text.addresses
            lines == Lines(text.input)
        IN /\ Len(lines) >= 2
                => \A k \in 1..Len(out) : \E i \in 1..Len(lines) : out[k] = Sanitize(lines[i])
           /\ (Len(lines) = 1 /\ Includes(lines[1], Comma))
                => \A k \in 1..Len(out) : ~Includes(out[k], Comma)

\* two lines were parsed and a comma of the first line is kept in an address
C15_Witness ==
    /\ text.parsed
    /\ Len(Lines(text.input)) = 2
    /\ Includes(Lines(text.input)[1], Comma)
    /\ \E k \in 1..Len(text.addresses) : Includes(text.addresses[k], Comma)

\* the loop of run r is over
LoopOver(r) == bulk.run[r].pc \in {"finishing", "finished"}
\* addresses of a list of result entries
AddressesOf(entries) == {entries[k].address : k \in 1..Len(entries)}
\* what run r stored in group g
SavedBy(r, g) == {x \in bulk.saved : x.run = r /\ x.group = g}

\* C16: when a run that was never cancelled is over, each of its addresses is in exactly
\* one of results.successful and results.failed, and the number of locations it added to
\* its target group is results.successful.length.
C16_EveryAddressAccounted ==
    \A r \in Runs :
        (LoopOver(r) /\ bulk.run[r].cancelledAt = NotCancelled)
            => LET run == bulk.run[r]
               IN /\ Len(run.successful) + Len(run.failed) = run.n
                  /\ AddressesOf(run.successful) \cup AddressesOf(run.failed) = 1..run.n
                  /\ AddressesOf(run.successful) \cap AddressesOf(run.failed) = {}
                  /\ Cardinality(SavedBy(r, run.target)) = Len(run.successful)

\* C17: the k-th entry of results.successful of a run (k from 0) was stored with color
\* k mod PaletteSize.
C17_ColorBySuccessCount ==
    \A r \in Runs :
        \A k \in 1..Len(bulk.run[r].successful) :
            bulk.run[r].successful[k].color = (k - 1) % PaletteSize

\* C18: an address whose geocode succeeded and whose save failed is in results.failed
\* with the reason 'Failed to save to database', and has no marker.
C18_SaveFailureReason ==
    \A r \in Runs :
        \A k \in 1..Len(bulk.run[r].failed) :
            LET e == bulk.run[r].failed[k]
            IN e.geocoded => /\ e.reason = SaveToDatabaseText
                             /\ [run |-> r, address |-> e.address] \notin bulk.markers

\* C19: after cancelBulkProcessing no further iteration of a running loop begins, and
\* the item in flight at that moment is recorded when the loop is over.
C19_CancelStopsLoop ==
    \A r \in Runs :
        bulk.run[r].cancelledAt # NotCancelled
            => /\ bulk.run[r].begun = bulk.run[r].cancelledAt
               /\ LoopOver(r) =>
                    Len(bulk.run[r].successful) + Len(bulk.run[r].failed) = bulk.run[r].begun

\* C20: a run geocodes its addresses in input order, each at most once, with at most one
\* geocode or save call in flight, and starts the geocode of an address only after the
\* address before it was recorded.
C20_StrictlySequential ==
    \A r \in Runs :
        LET run == bulk.run[r]
        IN /\ run.inflight <= 1
           /\ run.geocoded = [k \in 1..run.begun |-> k]
           /\ Len(run.successful) + Len(run.failed)
                = IF run.pc \in {"geocoding", "saving"} THEN run.begun - 1 ELSE run.begun

\* a run of two addresses is over: the first failed to geocode, the second was stored
C20_Witness ==
    \E r \in Runs :
        /\ LoopOver(r) /\ bulk.run[r].n = 2
        /\ AddressesOf(bulk.run[r].failed) = {1}
        /\ AddressesOf(bulk.run[r].successful) = {2}

\* C21: every stored location has its latitude and longitude in range and a non-empty
\* title, and a request whose location is out of range is answered 400 and stores nothing.
C21_StoredLocationsValid ==
    /\ \A loc \in api.stored :
         loc.lat = "in" /\ loc.lng = "in" /\ loc.title \in {"ok", "long"}
    /\ (api.route # "none" /\ (api.loc.lat = "out" \/ api.loc.lng = "out"))
         => (api.answer = "400" /\ ~api.wrote)

\* C22: between operations (no statement queued, no transaction open) no two locations
\* of one group have the same order_index and the same created_at.
C22_StrictTotalOrder ==
    (queue = <<>> /\ ~inTxn) =>
        \A l1, l2 \in locations :
            (l1.id # l2.id /\ l1.gid = l2.gid) => ~(l1.oi = l2.oi /\ l1.cat = l2.cat)

\* C23: between operations every location row refers to an existing group row.
C23_NoOrphanLocation ==
    (queue = <<>> /\ ~inTxn) =>
        \A l \in locations : \E g \in groups : g.id = l.gid

\* ---- the marker list: drag and drop (script.js) ----

MaxMarkers == 3
MarkerIds == 1..MaxMarkers
\* the markers array, as the locationId of each marker
MarkerLists ==
    {m \in UNION {[1..n -> MarkerIds] : n \in 0..MaxMarkers} :
        \A i, j \in 1..Len(m) : i # j => m[i] # m[j]}

\* Array.prototype.splice(i, 1) and splice(i, 0, x), indices from 0
RemoveAt(m, i) == SubSeq(m, 1, i) \o SubSeq(m, i + 2, Len(m))
InsertAt(m, i, x) == SubSeq(m, 1, i) \o <<x>> \o SubSeq(m, i + 1, Len(m))

SwapMarkers(m, from, to) ==
    [i \in 1..Len(m) |-> IF i = from + 1 THEN m[to + 1]
                         ELSE IF i = to + 1 THEN m[from + 1] ELSE m[i]]

\* the two splices of reorderMarkers
MoveMarker(m, from, to) == InsertAt(RemoveAt(m, from), to, m[from + 1])

\* the route that answers a request: the first one registered that matches, 0 for none
Dispatch(method, path) ==
    LET hits == {k \in 1..Len(Routes) : Matches(Routes[k], method, path)}
    IN IF hits = {} THEN 0 ELSE CHOOSE k \in hits : \A h \in hits : k <= h

\* PUT /api/location-groups/${currentGroupId}/locations/reorder with {locationIds}
ReorderPath == <<Uuid, "locations", "reorder">>

dragOnly == UNCHANGED <<server, http, text, bulk, api, devices, counter>>

\* the page with a list of markers loaded, a group selected or not
InitDrag ==
    /\ ServerFresh
    /\ http = NoHttp
    /\ text = NoText
    /\ bulk = NoBulk
    /\ api = NoApi
    /\ devices = {}
    /\ counter = NoCounter
    /\ \E m \in MarkerLists, sel \in BOOLEAN :
         drag = [NoDrag EXCEPT !.markers = m, !.group = sel,
                               !.stored = IF sel THEN m ELSE <<>>]

\* handleDrop on another item than the dragged one, and reorderMarkers up to its await
ReorderMarkers ==
    /\ drag.pc # "fetching"
    /\ \E from, to \in 0..(Len(drag.markers) - 1) :
         /\ from # to
         /\ LET moved == MoveMarker(drag.markers, from, to)
            IN drag' = [drag EXCEPT !.markers = moved, !.before = drag.markers,
                                    !.from = from, !.to = to,
                                    !.pc = IF drag.group THEN "fetching" ELSE "done",
                                    !.sent = IF drag.group THEN moved ELSE <<>>,
                                    !.failed = FALSE, !.answer = 0]
    /\ dragOnly

\* fetch rejects: the catch logs, and nothing else happens
FetchFails ==
    /\ drag.pc = "fetching"
    /\ drag' = [drag EXCEPT !.pc = "done", !.failed = TRUE]
    /\ dragOnly

\* the request reaches the server and is answered; the page does not read the answer
FetchAnswered ==
    /\ drag.pc = "fetching"
    /\ LET k == Dispatch("PUT", ReorderPath)
           r == Routes[k]
           ok == k # 0 /\ Valid(r, ReorderPath, "ids")
       IN drag' = [drag EXCEPT
                     !.pc = "done",
                     !.answer = IF k = 0 THEN 404 ELSE IF ok THEN 200 ELSE 400,
                     !.stored = IF ok /\ r.handler = "reorder" THEN drag.sent
                                ELSE drag.stored]
    /\ dragOnly

NextDrag == ReorderMarkers \/ FetchFails \/ FetchAnswered

SpecDrag == InitDrag /\ [][NextDrag]_vars

\* C25: reorderMarkers(fromIndex, toIndex) leaves a permutation of the list with the moved
\* marker at toIndex and the other markers in their former relative order; the list is
\* already changed when the request is made, and the ids sent are those of the new list.
C25_ReorderMarkersMoves ==
    drag.pc # "idle" =>
        /\ Len(drag.markers) = Len(drag.before)
        /\ {drag.markers[i] : i \in 1..Len(drag.markers)}
             = {drag.before[i] : i \in 1..Len(drag.before)}
        /\ drag.markers[drag.to + 1] = drag.before[drag.from + 1]
        /\ RemoveAt(drag.markers, drag.to) = RemoveAt(drag.before, drag.from)
        /\ drag.group => drag.sent = drag.markers

C25_Witness ==
    /\ drag.pc = "fetching"
    /\ Len(drag.markers) = MaxMarkers
    /\ drag.from = 0
    /\ drag.to = MaxMarkers - 1
    /\ drag.sent # drag.before

\* C26: when the reorder request was delivered and answered, the order stored on the
\* server is the order of the list on the page.
C26_AnsweredMeansSameOrder ==
    (drag.pc = "done" /\ drag.group /\ ~drag.failed) => drag.stored = drag.markers

\* C24: a request of a device that has a row leaves the row's created_at as it was, and
\* registering a device changes neither location_groups nor locations.
C24_RegistrationKeepsCreatedAt ==
    [][ /\ \A r \in devices : \A q \in devices' : q.id = r.id => q.created = r.created
        /\ devices' # devices => UNCHANGED <<groups, locations>> ]_vars

\* the distinct addresses written in the textarea
DistinctAddresses(input) == IF Trim(input) = <<>> THEN <<>> ELSE SetOf(Sanitized(input))

\* C27: the address counter shows the cap with "(max)" exactly when the input holds more
\* distinct addresses than the cap, and the plain number of addresses otherwise.
C27_CounterShowsMax ==
    counter.updated =>
        /\ counter.max <=> Len(DistinctAddresses(text.input)) > AddressCap
        /\ ~counter.max => counter.count = Len(DistinctAddresses(text.input))

\* call t deletes no row of call s's group: a rollback or commit of t is the only way it
\* can touch what s wrote
Harmless(t, s) ==
    ops[t].kind \in {"create", "reorder", "get", "add"} \/ ops[t].gid # ops[s].gid

\* C28: with two requests interleaved on the connection, the ROLLBACK of one call never
\* discards a write of another call that was reported successful, and the COMMIT of one
\* call never makes durable the partial writes of another call that was reported failed.
\* A group that is added to existed before either call was made, and no call names the
\* group another call is creating.
C28_TransactionsIsolated ==
    \A s, t \in Slots :
        (s # t /\ Done(s) /\ Done(t) /\ Harmless(t, s)) =>
            /\ (ops[s].kind = "add" /\ ops[s].st = "ok" /\ PreOwned(ops[s])
                    /\ \E g \in ops[t].pre.g : g.id = ops[s].gid)
                   => \E l \in locations : l.id = ops[s].res.list[1]
            /\ (ops[s].kind = "create" /\ ops[s].locs = <<>> /\ ops[s].st = "ok"
                    /\ ops[t].gid # ops[s].gid)
                   => \E g \in groups : g.id = ops[s].gid
            /\ (ops[s].kind = "create" /\ ops[s].locs = <<>> /\ ops[s].st = "error"
                    /\ ops[t].gid # ops[s].gid)
                   => (/\ ~\E g \in groups : g.id = ops[s].gid
                       /\ LocsOf(locations, ops[s].gid) = {})

\* C29: a reorderLocations call on a group its caller owns completes: once none of its
\* statements is left on the connection it has been answered, and it has left no
\* transaction open.
C29_ReorderCompletes ==
    \A s \in Slots :
        (alive /\ ops[s].kind = "reorder" /\ PreOwned(ops[s]) /\ ~HasStmt(s))
            => (Answered(s) /\ ~inTxn)

\* C30: every location a bulk run stored is in the group that was current when
\* startBulkUpload started the run, whatever group is selected while the run goes on.
C30_SingleTargetGroup ==
    \A x \in bulk.saved : x.group = bulk.run[x.run].target
====
